---- MODULE Spec2Model ----
(***************************************************************************)
(* The docledger chaincode (docledger.go): a contract object whose Invoke  *)
(* entry point dispatches on a function name to seven handlers that read   *)
(* and write StudentDoc records in the host's ledger state store.          *)
(*                                                                         *)
(* Strings are sequences of bytes, so that key order (the range scan) and  *)
(* the JSON encoding of a string (invalid UTF-8 is replaced) are computed. *)
(* The host's get and put are taken to succeed, as the handlers take them  *)
(* (they discard both calls' error results); the range scan, the history   *)
(* scan and an iterator's Next may fail, and the handlers test for that.   *)
(***************************************************************************)
EXTENDS Integers, Sequences, FiniteSets

VARIABLES
    ledger,     \* the host's state store: a function from the stored keys to their bytes
    pre,        \* the state store as it was when the last invocation started
    inv,        \* the last invocation: its inputs and what the contract did
    lastWrite   \* function and args of the latest invocation that called PutState

vars == <<ledger, pre, inv, lastWrite>>

\* ------------------------------------------------------------------ bounds

\* longest argument list of an invocation
MaxArgs == 3
\* longest history the host's history iterator yields
MaxHist == 2
\* latest call of an iterator's Next that the host may fail
MaxFailAt == 1

\* ----------------------------------------------------------------- strings

\* "StudentDoc"
Prefix == <<83, 116, 117, 100, 101, 110, 116, 68, 111, 99>>

RECURSIVE Itoa(_)
\* strconv.Itoa of a natural number: its decimal digits
Itoa(i) == IF i < 10 THEN <<48 + i>> ELSE Itoa(i \div 10) \o <<48 + (i % 10)>>

RECURSIVE LexLessFrom(_, _, _)
LexLessFrom(a, b, i) ==
    IF i > Len(b) THEN FALSE
    ELSE IF i > Len(a) THEN TRUE
    ELSE IF a[i] # b[i] THEN a[i] < b[i]
    ELSE LexLessFrom(a, b, i + 1)

\* a < b for Go strings: bytewise lexical order, as the host orders keys
LexLess(a, b) == LexLessFrom(a, b, 1)

IsCont(s, i) == i <= Len(s) /\ s[i] >= 128 /\ s[i] <= 191
ByteIn(s, i, lo, hi) == i <= Len(s) /\ s[i] >= lo /\ s[i] <= hi

\* the width of the UTF-8 encoding that starts at s[i], 0 if there is none
RuneLen(s, i) ==
    LET b == s[i] IN
    IF b < 128 THEN 1
    ELSE IF b >= 194 /\ b <= 223 THEN (IF IsCont(s, i + 1) THEN 2 ELSE 0)
    ELSE IF b = 224 THEN (IF ByteIn(s, i + 1, 160, 191) /\ IsCont(s, i + 2) THEN 3 ELSE 0)
    ELSE IF b = 237 THEN (IF ByteIn(s, i + 1, 128, 159) /\ IsCont(s, i + 2) THEN 3 ELSE 0)
    ELSE IF b >= 225 /\ b <= 239 THEN (IF IsCont(s, i + 1) /\ IsCont(s, i + 2) THEN 3 ELSE 0)
    ELSE IF b = 240 THEN
        (IF ByteIn(s, i + 1, 144, 191) /\ IsCont(s, i + 2) /\ IsCont(s, i + 3) THEN 4 ELSE 0)
    ELSE IF b = 244 THEN
        (IF ByteIn(s, i + 1, 128, 143) /\ IsCont(s, i + 2) /\ IsCont(s, i + 3) THEN 4 ELSE 0)
    ELSE IF b >= 241 /\ b <= 243 THEN
        (IF IsCont(s, i + 1) /\ IsCont(s, i + 2) /\ IsCont(s, i + 3) THEN 4 ELSE 0)
    ELSE 0

\* U+FFFD, the replacement character, in UTF-8
RuneError == <<239, 191, 189>>

RECURSIVE jsonStringFrom(_, _)
jsonStringFrom(s, i) ==
    IF i > Len(s) THEN <<>>
    ELSE LET w == RuneLen(s, i) IN
         IF w = 0 THEN RuneError \o jsonStringFrom(s, i + 1)
         ELSE SubSeq(s, i, i + w - 1) \o jsonStringFrom(s, i + w)

\* the string a JSON decoder reads back from what json.Marshal writes for s:
\* every byte that starts no valid UTF-8 encoding is written as U+FFFD
jsonString(s) == jsonStringFrom(s, 1)

ValidUTF8(s) == jsonString(s) = s

\* ------------------------------------------------------------ stored bytes

\* JSON values of an object's field
JString(s) == [t |-> "string", v |-> s]
JNumber == [t |-> "number"]

\* no bytes: what get returns for an absent key, and a nil payload
NilBytes == [kind |-> "nil"]
\* bytes that are not JSON
Garbage == [kind |-> "garbage"]
\* the bytes {"docStatus":<st>,"owner":<ow>}
ObjectBytes(st, ow) == [kind |-> "object", docStatus |-> st, owner |-> ow]

\* type StudentDoc struct: the zero value, and a value
ZeroStudentDoc == [DocStatus |-> <<>>, Owner |-> <<>>]
StudentDoc(st, ow) == [DocStatus |-> st, Owner |-> ow]

\* json.Marshal of a StudentDoc
Marshal(doc) == ObjectBytes(JString(jsonString(doc.DocStatus)), JString(jsonString(doc.Owner)))

\* a variant that stores nothing unless every field decodes
UnmarshalAllOrNothing(bytes, doc) ==
    IF bytes.kind = "object" /\ bytes.docStatus.t = "string" /\ bytes.owner.t = "string"
    THEN [DocStatus |-> bytes.docStatus.v, Owner |-> bytes.owner.v]
    ELSE doc

\* json.Unmarshal(bytes, &doc), its error dropped: bytes that are no JSON value
\* leave doc as it is; of a JSON object, every field holding a string is
\* stored, and a field of another type is skipped
Unmarshal(bytes, doc) ==
    IF bytes.kind # "object" THEN doc
    ELSE [DocStatus |-> IF bytes.docStatus.t = "string" THEN bytes.docStatus.v ELSE doc.DocStatus,
          Owner     |-> IF bytes.owner.t = "string" THEN bytes.owner.v ELSE doc.Owner]

\* bytes that json.Unmarshal reads into a StudentDoc without an error
Decodes(bytes) ==
    bytes.kind = "object" /\ bytes.docStatus.t = "string" /\ bytes.owner.t = "string"

\* --------------------------------------------------------- the host's API

\* the keys of the nine records that initLedger writes
SeedKeys == {Prefix \o Itoa(i) : i \in 0..8}
\* "StudentDoc10": inside the range that queryAllStudentDocs scans
KeyInRange == Prefix \o Itoa(10)
\* "doc1": outside that range
KeyOutside == <<100, 111, 99, 49>>
\* the keys that the writing invocations name, and the keys that queries name
WriteKeys == {KeyInRange}
ReadKeys == {KeyInRange, KeyOutside}
AllKeys == SeedKeys \cup ReadKeys

\* "a", and a byte that is no UTF-8
ArgStrs == {<<97>>, <<255>>}

\* APIstub.GetState(key), its error dropped: no bytes for an absent key
GetState(st, key) == IF key \in DOMAIN st THEN st[key] ELSE NilBytes

\* APIstub.PutState(key, value), its error dropped
PutState(st, key, value) == [k \in DOMAIN st \cup {key} |-> IF k = key THEN value ELSE st[k]]

OkNext(item) == [ok |-> TRUE, item |-> item]
ErrNext(e) == [ok |-> FALSE, err |-> e]

\* an iterator over items whose failAt-th Next fails (0: none does)
Iterator(items, failAt) ==
    IF failAt = 0 \/ failAt > Len(items)
    THEN [i \in 1..Len(items) |-> OkNext(items[i])]
    ELSE [i \in 1..failAt |-> IF i < failAt THEN OkNext(items[i]) ELSE ErrNext("next failed")]

RECURSIVE SortKeys(_)
\* the keys of S in ascending lexical order
SortKeys(S) ==
    IF S = {} THEN <<>>
    ELSE LET m == CHOOSE x \in S : \A y \in S \ {x} : LexLess(x, y)
         IN <<m>> \o SortKeys(S \ {m})

\* every key in the order in which the host's range scan walks the keys
KeyOrder == SortKeys(AllKeys)

\* APIstub.GetStateByRange(startKey, endKey): an error, or an iterator over
\* the stored keys k with start <= k < end, in ascending order
GetStateByRange(st, start, end, host) ==
    IF host.scanErr THEN [err |-> "range scan failed", it |-> <<>>]
    ELSE LET ks == SelectSeq(KeyOrder, LAMBDA k :
                        k \in DOMAIN st /\ ~LexLess(k, start) /\ LexLess(k, end))
         IN [err |-> "",
             it |-> Iterator([i \in 1..Len(ks) |-> [Key |-> ks[i], Value |-> st[ks[i]]]],
                             host.failAt)]

\* stub.GetHistoryForKey(docId): an error, or an iterator over the history
\* the host keeps for the key
GetHistoryForKey(docId, host) ==
    IF host.scanErr THEN [err |-> "history scan failed", it |-> <<>>]
    ELSE [err |-> "", it |-> Iterator(host.history, host.failAt)]

\* --------------------------------------------------------------- responses

\* shim.Success(payload) and shim.Error(msg); a message is the sequence of
\* the strings it is concatenated from
Success(payload) == [status |-> "SUCCESS", message |-> <<>>, payload |-> payload]
Error(msg) == [status |-> "ERROR", message |-> msg, payload |-> NilBytes]

\* what a handler did: its response, the state store it leaves, its calls
\* into the host's state API in order, and the iterators it opened and closed
Done(resp, st, calls) == [resp |-> resp, ledger |-> st, calls |-> calls, opened |-> 0, closed |-> 0]

\* bytes.Buffer: the sequence of the pieces written; an array member is one piece
Tok(s) == [tok |-> s]
\* the literal null
NullValue == [kind |-> "null"]
\* buffer.Bytes(): the bytes of the pieces written
BufferBytes(buffer) == [kind |-> "array", pieces |-> buffer]

\* ----------------------------------------------------------------- handlers

queryStudentDoc(st, args) ==
    IF Len(args) # 1
    THEN Done(Error(<<"Incorrect number of arguments. Expecting 1">>), st, <<>>)
    ELSE LET studentDocAsBytes == GetState(st, args[1])
         IN Done(Success(studentDocAsBytes), st, <<"GetState">>)

\* studentDocs := []StudentDoc{...}, each string as its bytes
studentDocs == <<
    \* {DocStatus: "scanned", Owner: "Tomoko"}
    StudentDoc(<<115, 99, 97, 110, 110, 101, 100>>,
               <<84, 111, 109, 111, 107, 111>>),
    \* {DocStatus: "transmitted responses", Owner: "Jack"}
    StudentDoc(<<116, 114, 97, 110, 115, 109, 105, 116, 116, 101, 100, 32, 114, 101, 115, 112, 111, 110, 115, 101, 115>>,
               <<74, 97, 99, 107>>),
    \* {DocStatus: "received responses", Owner: "John"}
    StudentDoc(<<114, 101, 99, 101, 105, 118, 101, 100, 32, 114, 101, 115, 112, 111, 110, 115, 101, 115>>,
               <<74, 111, 104, 110>>),
    \* {DocStatus: "machine scored", Owner: "Mark"}
    StudentDoc(<<109, 97, 99, 104, 105, 110, 101, 32, 115, 99, 111, 114, 101, 100>>,
               <<77, 97, 114, 107>>),
    \* {DocStatus: "human scored", Owner: "Tim"}
    StudentDoc(<<104, 117, 109, 97, 110, 32, 115, 99, 111, 114, 101, 100>>,
               <<84, 105, 109>>),
    \* {DocStatus: "scores exported", Owner: "Jane"}
    StudentDoc(<<115, 99, 111, 114, 101, 115, 32, 101, 120, 112, 111, 114, 116, 101, 100>>,
               <<74, 97, 110, 101>>),
    \* {DocStatus: "transmitted scores", Owner: "Peter"}
    StudentDoc(<<116, 114, 97, 110, 115, 109, 105, 116, 116, 101, 100, 32, 115, 99, 111, 114, 101, 115>>,
               <<80, 101, 116, 101, 114>>),
    \* {DocStatus: "received scores", Owner: "Sid"}
    StudentDoc(<<114, 101, 99, 101, 105, 118, 101, 100, 32, 115, 99, 111, 114, 101, 115>>,
               <<83, 105, 100>>),
    \* {DocStatus: "scores reported", Owner: "Mesut"}
    StudentDoc(<<115, 99, 111, 114, 101, 115, 32, 114, 101, 112, 111, 114, 116, 101, 100>>,
               <<77, 101, 115, 117, 116>>)
>>

\* json.Marshal(studentDocs[i]) for each i, as 1..len
studentDocsAsBytes == [i \in 1..Len(studentDocs) |-> Marshal(studentDocs[i])]

RECURSIVE initLedgerLoop(_, _, _)
\* for i < len(studentDocs): PutState("StudentDoc"+strconv.Itoa(i), json.Marshal(studentDocs[i]))
initLedgerLoop(st, i, calls) ==
    IF i < Len(studentDocs)
    THEN initLedgerLoop(PutState(st, Prefix \o Itoa(i), studentDocsAsBytes[i + 1]),
                        i + 1, Append(calls, "PutState"))
    ELSE Done(Success(NilBytes), st, calls)

\* a variant whose loop starts at the second record
initLedgerFromOne(st) == initLedgerLoop(st, 1, <<>>)

initLedger(st) == initLedgerLoop(st, 0, <<>>)

\* a variant that stores the owner as the status and the status as the owner
createStudentDocSwapped(st, args) ==
    IF Len(args) # 3
    THEN Done(Error(<<"Incorrect number of arguments. Expecting 3">>), st, <<>>)
    ELSE Done(Success(NilBytes),
              PutState(st, args[1], Marshal(StudentDoc(args[3], args[2]))), <<"PutState">>)

\* a variant that writes before it counts its arguments
createStudentDocWritesFirst(st, args) ==
    IF Len(args) = 0
    THEN Done(Error(<<"Incorrect number of arguments. Expecting 3">>), st, <<>>)
    ELSE IF Len(args) # 3
    THEN Done(Error(<<"Incorrect number of arguments. Expecting 3">>),
              PutState(st, args[1], Marshal(ZeroStudentDoc)), <<"PutState">>)
    ELSE Done(Success(NilBytes),
              PutState(st, args[1], Marshal(StudentDoc(args[2], args[3]))), <<"PutState">>)

createStudentDoc(st, args) ==
    IF Len(args) # 3
    THEN Done(Error(<<"Incorrect number of arguments. Expecting 3">>), st, <<>>)
    ELSE LET studentDoc == StudentDoc(args[2], args[3])
         IN Done(Success(NilBytes), PutState(st, args[1], Marshal(studentDoc)), <<"PutState">>)

\* a variant that closes the iterator only at the end of the loop
DeferredOnSuccess(r) == IF r.resp.status = "ERROR" THEN r ELSE [r EXCEPT !.closed = @ + 1]

\* a scan that returned no error hands the handler one open iterator
Held(r) == [r EXCEPT !.opened = @ + 1]
\* defer resultsIterator.Close(): runs when the handler returns, whatever the path
Deferred(r) == [r EXCEPT !.closed = @ + 1]

RECURSIVE queryAllLoop(_, _, _, _, _)
\* for resultsIterator.HasNext(): Next, then one {"Key":..., "Record":...} member
queryAllLoop(st, it, i, buffer, bArrayMemberAlreadyWritten) ==
    IF i > Len(it) THEN
        Done(Success(BufferBytes(buffer \o <<Tok("]")>>)), st, <<"GetStateByRange">>)
    ELSE IF ~it[i].ok THEN
        Done(Error(<<it[i].err>>), st, <<"GetStateByRange">>)
    ELSE LET queryResponse == it[i].item
             member == [tok |-> "{}", Key |-> queryResponse.Key, Record |-> queryResponse.Value]
         IN queryAllLoop(st, it, i + 1,
                buffer \o (IF bArrayMemberAlreadyWritten THEN <<Tok(",")>> ELSE <<>>) \o <<member>>,
                TRUE)

\* startKey := "StudentDoc0" and endKey := "StudentDoc999"
startKey == Prefix \o Itoa(0)
endKey == Prefix \o Itoa(999)

\* the handler from the answer of its scan on
queryAllScanned(st, scan) ==
    IF scan.err # ""
    THEN Done(Error(<<scan.err>>), st, <<"GetStateByRange">>)
    ELSE Deferred(Held(queryAllLoop(st, scan.it, 1, <<Tok("[")>>, FALSE)))

queryAllStudentDocs(st, host) ==
    queryAllScanned(st, GetStateByRange(st, startKey, endKey, host))

\* a variant that does not read the stored record
changeStudentDocOwnerFresh(st, args) ==
    IF Len(args) # 2
    THEN Done(Error(<<"Incorrect number of arguments. Expecting 2">>), st, <<>>)
    ELSE Done(Success(NilBytes),
              PutState(st, args[1], Marshal([ZeroStudentDoc EXCEPT !.Owner = args[2]])),
              <<"GetState", "PutState">>)

changeStudentDocOwner(st, args) ==
    IF Len(args) # 2
    THEN Done(Error(<<"Incorrect number of arguments. Expecting 2">>), st, <<>>)
    ELSE LET studentDocAsBytes == GetState(st, args[1])
             decoded == Unmarshal(studentDocAsBytes, ZeroStudentDoc)
             studentDoc == [decoded EXCEPT !.Owner = args[2]]
         IN Done(Success(NilBytes), PutState(st, args[1], Marshal(studentDoc)),
                 <<"GetState", "PutState">>)

\* a variant that writes the owner and the status with one put each
changeStudentDocStatusTwoPuts(st, args) ==
    IF Len(args) # 3
    THEN Done(Error(<<"Incorrect number of arguments. Expecting 3">>), st, <<>>)
    ELSE LET decoded == Unmarshal(GetState(st, args[1]), ZeroStudentDoc)
             studentDoc == [decoded EXCEPT !.Owner = args[2], !.DocStatus = args[3]]
         IN Done(Success(NilBytes), PutState(st, args[1], Marshal(studentDoc)),
                 <<"GetState", "PutState", "PutState">>)

changeStudentDocStatus(st, args) ==
    IF Len(args) # 3
    THEN Done(Error(<<"Incorrect number of arguments. Expecting 3">>), st, <<>>)
    ELSE LET studentDocAsBytes == GetState(st, args[1])
             decoded == Unmarshal(studentDocAsBytes, ZeroStudentDoc)
             studentDoc == [decoded EXCEPT !.Owner = args[2], !.DocStatus = args[3]]
         IN Done(Success(NilBytes), PutState(st, args[1], Marshal(studentDoc)),
                 <<"GetState", "PutState">>)

\* strconv.FormatBool
FormatBool(b) == IF b THEN "true" ELSE "false"
\* time.Unix(Seconds, Nanos).String(): a text fixed by the two numbers
TimeString(ts) == <<"time.Unix", ts.Seconds, ts.Nanos>>

\* a variant that writes the value of every item as it is
historyMemberRaw(response) ==
    [tok |-> "{}",
     TxId |-> response.TxId,
     Value |-> response.Value,
     Timestamp |-> TimeString(response.Timestamp),
     IsDelete |-> FormatBool(response.IsDelete)]

\* the member written for one history item: null for the value of a delete
historyMember(response) ==
    [tok |-> "{}",
     TxId |-> response.TxId,
     Value |-> IF response.IsDelete THEN NullValue ELSE response.Value,
     Timestamp |-> TimeString(response.Timestamp),
     IsDelete |-> FormatBool(response.IsDelete)]

RECURSIVE getHistoryLoop(_, _, _, _, _)
\* for resultsIterator.HasNext(): Next, then one {"TxId", "Value", "Timestamp", "IsDelete"} member
getHistoryLoop(st, it, i, buffer, bArrayMemberAlreadyWritten) ==
    IF i > Len(it) THEN
        Done(Success(BufferBytes(buffer \o <<Tok("]")>>)), st, <<"GetHistoryForKey">>)
    ELSE IF ~it[i].ok THEN
        Done(Error(<<it[i].err>>), st, <<"GetHistoryForKey">>)
    ELSE LET response == it[i].item
         IN getHistoryLoop(st, it, i + 1,
                buffer \o (IF bArrayMemberAlreadyWritten THEN <<Tok(",")>> ELSE <<>>)
                       \o <<historyMember(response)>>,
                TRUE)

\* the handler from the answer of its scan on
getHistoryScanned(st, scan) ==
    IF scan.err # ""
    THEN Done(Error(<<scan.err>>), st, <<"GetHistoryForKey">>)
    ELSE Deferred(Held(getHistoryLoop(st, scan.it, 1, <<Tok("[")>>, FALSE)))

getHistoryForStudentDoc(st, args, host) ==
    IF Len(args) < 1
    THEN Done(Error(<<"Incorrect number of arguments. Expecting 1">>), st, <<>>)
    ELSE LET docId == args[1]
         IN getHistoryScanned(st, GetHistoryForKey(docId, host))

\* --------------------------------------------------------------- dispatcher

\* the seven function names that Invoke routes
FunctionNames == {"queryStudentDoc", "initLedger", "createStudentDoc", "queryAllStudentDocs",
                  "changeStudentDocOwner", "changeStudentDocStatus", "getHistoryForStudentDoc"}

Ran(handler, out) == [handler |-> handler, out |-> out]

\* a variant that routes every other name to queryStudentDoc
InvokeDefaultQuery(function, args, st, host) ==
    IF function = "initLedger" THEN Ran("initLedger", initLedger(st))
    ELSE IF function = "createStudentDoc" THEN Ran("createStudentDoc", createStudentDoc(st, args))
    ELSE IF function = "queryAllStudentDocs" THEN Ran("queryAllStudentDocs", queryAllStudentDocs(st, host))
    ELSE IF function = "changeStudentDocOwner" THEN Ran("changeStudentDocOwner", changeStudentDocOwner(st, args))
    ELSE IF function = "changeStudentDocStatus" THEN Ran("changeStudentDocStatus", changeStudentDocStatus(st, args))
    ELSE IF function = "getHistoryForStudentDoc" THEN Ran("getHistoryForStudentDoc", getHistoryForStudentDoc(st, args, host))
    ELSE Ran("queryStudentDoc", queryStudentDoc(st, args))

Invoke(function, args, st, host) ==
    IF function = "queryStudentDoc" THEN Ran("queryStudentDoc", queryStudentDoc(st, args))
    ELSE IF function = "initLedger" THEN Ran("initLedger", initLedger(st))
    ELSE IF function = "createStudentDoc" THEN Ran("createStudentDoc", createStudentDoc(st, args))
    ELSE IF function = "queryAllStudentDocs" THEN Ran("queryAllStudentDocs", queryAllStudentDocs(st, host))
    ELSE IF function = "changeStudentDocOwner" THEN Ran("changeStudentDocOwner", changeStudentDocOwner(st, args))
    ELSE IF function = "changeStudentDocStatus" THEN Ran("changeStudentDocStatus", changeStudentDocStatus(st, args))
    ELSE IF function = "getHistoryForStudentDoc" THEN Ran("getHistoryForStudentDoc", getHistoryForStudentDoc(st, args, host))
    ELSE Ran("none", Done(Error(<<function, ": Invalid Smart Contract function name.">>), st, <<>>))

\* ------------------------------------------------------------ invocations

\* what the host answers during one invocation: whether the scan fails, which
\* call of Next fails (0: none), and the history it keeps for the key asked
NoHost == [scanErr |-> FALSE, failAt |-> 0, history |-> <<>>]
ScanFails == [scanErr |-> TRUE, failAt |-> 0, history |-> <<>>]

SeqsUpTo(S, n) == UNION {[1..m -> S] : m \in 0..n}

\* argument lists of every length, for the paths that read no argument
ProbeArgs == {[i \in 1..m |-> KeyInRange] : m \in 0..MaxArgs}
\* argument lists for a handler that reads n arguments: every other length,
\* and a key of K followed by n - 1 strings
ArgsOf(n, K) == {p \in ProbeArgs : Len(p) # n} \cup
                {<<k>> \o rest : k \in K, rest \in [1..(n - 1) -> ArgStrs]}

RangeHosts == {ScanFails} \cup {[NoHost EXCEPT !.failAt = f] : f \in 0..MaxFailAt}

\* history items: a write of the first seed record, and a delete
HistItems == {[TxId |-> "tx1", Value |-> studentDocsAsBytes[1],
               Timestamp |-> [Seconds |-> 0, Nanos |-> 0], IsDelete |-> FALSE],
              [TxId |-> "tx2", Value |-> NilBytes,
               Timestamp |-> [Seconds |-> 1, Nanos |-> 0], IsDelete |-> TRUE]}

HistoryHosts == {ScanFails} \cup
    {host \in {[scanErr |-> FALSE, failAt |-> f, history |-> h] :
                 f \in 0..MaxFailAt, h \in SeqsUpTo(HistItems, MaxHist)} :
        host.failAt <= Len(host.history)}

\* names that Invoke does not route
UnknownNames == {"deleteStudentDoc", "querystudentdoc"}

\* bytes {"docStatus":"a","owner":1}, left in the store by another writer
BadOwnerBytes == ObjectBytes(JString(<<97>>), JNumber)

EmptyLedger == [k \in {} |-> NilBytes]

\* the state store when the contract is instantiated: empty, or holding
\* values that this contract did not write
InitialLedgers ==
    LET others == {EmptyLedger, PutState(EmptyLedger, KeyOutside, BadOwnerBytes)}
    IN others \cup {PutState(o, KeyInRange, b) : o \in others, b \in {Garbage, BadOwnerBytes}}

NoCall == [function |-> "", args |-> <<>>]

Init ==
    /\ ledger \in InitialLedgers
    /\ pre = ledger
    /\ inv = [entry |-> "none", function |-> "", args |-> <<>>, host |-> NoHost,
              handler |-> "none", resp |-> [status |-> "NONE", message |-> <<>>, payload |-> NilBytes],
              calls |-> <<>>, opened |-> 0, closed |-> 0]
    /\ lastWrite = NoCall

\* func (s *SmartContract) Init: success, nothing else
InitCall ==
    /\ pre' = ledger
    /\ ledger' = ledger
    /\ inv' = [entry |-> "Init", function |-> "", args |-> <<>>, host |-> NoHost,
               handler |-> "none", resp |-> Success(NilBytes),
               calls |-> <<>>, opened |-> 0, closed |-> 0]
    /\ UNCHANGED lastWrite

HasPut(calls) == \E i \in 1..Len(calls) : calls[i] = "PutState"

\* one invocation of Invoke with the given function, args and host answers
Call(function, args, host) ==
    \E r \in {Invoke(function, args, ledger, host)} :
        /\ pre' = ledger
        /\ ledger' = r.out.ledger
        /\ inv' = [entry |-> "Invoke", function |-> function, args |-> args, host |-> host,
                   handler |-> r.handler, resp |-> r.out.resp,
                   calls |-> r.out.calls, opened |-> r.out.opened, closed |-> r.out.closed]
        /\ lastWrite' = IF HasPut(r.out.calls)
                        THEN [function |-> function, args |-> args]
                        ELSE lastWrite

QueryStudentDocCall == \E args \in ArgsOf(1, ReadKeys) : Call("queryStudentDoc", args, NoHost)
InitLedgerCall == \E args \in ProbeArgs : Call("initLedger", args, NoHost)
CreateStudentDocCall == \E args \in ArgsOf(3, WriteKeys) : Call("createStudentDoc", args, NoHost)
QueryAllStudentDocsCall ==
    \/ \E args \in ProbeArgs : Call("queryAllStudentDocs", args, NoHost)
    \/ \E host \in RangeHosts : Call("queryAllStudentDocs", <<>>, host)
ChangeStudentDocOwnerCall == \E args \in ArgsOf(2, WriteKeys) : Call("changeStudentDocOwner", args, NoHost)
ChangeStudentDocStatusCall == \E args \in ArgsOf(3, WriteKeys) : Call("changeStudentDocStatus", args, NoHost)
GetHistoryForStudentDocCall ==
    \/ \E args \in ProbeArgs : Call("getHistoryForStudentDoc", args, NoHost)
    \/ \E host \in HistoryHosts : Call("getHistoryForStudentDoc", <<KeyInRange>>, host)
UnknownFunctionCall == \E f \in UnknownNames : Call(f, <<KeyInRange>>, NoHost)

Next ==
    \/ InitCall
    \/ QueryStudentDocCall
    \/ InitLedgerCall
    \/ CreateStudentDocCall
    \/ QueryAllStudentDocsCall
    \/ ChangeStudentDocOwnerCall
    \/ ChangeStudentDocStatusCall
    \/ GetHistoryForStudentDocCall
    \/ UnknownFunctionCall

Spec == Init /\ [][Next]_vars

\* ------------------------------------------------------------------ claims

IsInvoke == inv.entry = "Invoke"
\* the last invocation ran handler h with n arguments
RanWith(h, n) == IsInvoke /\ inv.handler = h /\ Len(inv.args) = n
Succeeded == inv.resp.status = "SUCCESS"
Failed == inv.resp.status = "ERROR"

\* the arity the handlers' table gives each function
Arity == [queryStudentDoc |-> 1, initLedger |-> 0, createStudentDoc |-> 3,
          queryAllStudentDocs |-> 0, changeStudentDocOwner |-> 2,
          changeStudentDocStatus |-> 3, getHistoryForStudentDoc |-> 1]

\* the array members of a hand-built array payload, in order
Members(payload) == SelectSeq(payload.pieces, LAMBDA piece : piece.tok = "{}")

\* every key but k holds what it held when the invocation started
OthersUnchanged(k) ==
    /\ DOMAIN ledger \ {k} = DOMAIN pre \ {k}
    /\ \A x \in DOMAIN pre \ {k} : ledger[x] = pre[x]

\* C1 as stated: a
\* createStudentDoc with 3 arguments succeeds, and a queryStudentDoc of the
\* same key with no write in between succeeds with a record whose status and
\* owner are exactly the strings given to createStudentDoc.
C1_ExactRoundTrip ==
    /\ RanWith("createStudentDoc", 3) => Succeeded
    /\ (RanWith("queryStudentDoc", 1) /\ lastWrite.function = "createStudentDoc"
            /\ lastWrite.args[1] = inv.args[1])
        => /\ Succeeded
           /\ Decodes(inv.resp.payload)
           /\ inv.resp.payload.docStatus.v = lastWrite.args[2]
           /\ inv.resp.payload.owner.v = lastWrite.args[3]

\* C1 amended: createStudentDoc with 3 arguments succeeds, and a queryStudentDoc
\* of the same key with no write in between succeeds with a record whose status
\* and owner are the strings given with every byte that is not part of a valid
\* UTF-8 encoding replaced by U+FFFD (so exactly those strings when they are
\* valid UTF-8).
C1_RoundTrip ==
    /\ RanWith("createStudentDoc", 3) => Succeeded
    /\ (RanWith("queryStudentDoc", 1) /\ lastWrite.function = "createStudentDoc"
            /\ lastWrite.args[1] = inv.args[1])
        => /\ Succeeded
           /\ Decodes(inv.resp.payload)
           /\ inv.resp.payload.docStatus.v = jsonString(lastWrite.args[2])
           /\ inv.resp.payload.owner.v = jsonString(lastWrite.args[3])
           /\ ValidUTF8(lastWrite.args[2]) => inv.resp.payload.docStatus.v = lastWrite.args[2]
           /\ ValidUTF8(lastWrite.args[3]) => inv.resp.payload.owner.v = lastWrite.args[3]

\* a queryStudentDoc right after createStudentDoc(key, <0xFF>, "a") overwrote a
\* stored value returns status U+FFFD and owner "a"
C1_Witness ==
    /\ RanWith("queryStudentDoc", 1)
    /\ lastWrite = [function |-> "createStudentDoc", args |-> <<inv.args[1], <<255>>, <<97>>>>]
    /\ Succeeded
    /\ inv.resp.payload = ObjectBytes(JString(RuneError), JString(<<97>>))

\* C2 as stated: an invocation of one of the seven functions whose argument
\* count differs from the function's arity returns a failure response.
C2_WrongArityFails ==
    (IsInvoke /\ inv.function \in FunctionNames /\ Len(inv.args) # Arity[inv.function])
        => Failed

\* C3 as stated: changeStudentDocOwner(key, newOwner) on a key that holds a
\* record leaves the record's status as it was, sets its owner to newOwner,
\* and changes no other key.
C3_OwnerIsNewOwner ==
    (RanWith("changeStudentDocOwner", 2) /\ inv.args[1] \in DOMAIN pre
            /\ Decodes(pre[inv.args[1]]))
        => /\ Decodes(ledger[inv.args[1]])
           /\ ledger[inv.args[1]].docStatus = pre[inv.args[1]].docStatus
           /\ ledger[inv.args[1]].owner.v = inv.args[2]
           /\ OthersUnchanged(inv.args[1])

\* C3 amended: changeStudentDocOwner(key, newOwner) on a key that holds a
\* record leaves the record's status as it was, sets its owner to newOwner
\* with every byte that is not part of a valid UTF-8 encoding replaced by
\* U+FFFD (newOwner itself when it is valid UTF-8), and changes no other key.
C3_OwnerOnly ==
    (RanWith("changeStudentDocOwner", 2) /\ inv.args[1] \in DOMAIN pre
            /\ Decodes(pre[inv.args[1]]))
        => /\ Succeeded
           /\ Decodes(ledger[inv.args[1]])
           /\ ledger[inv.args[1]].docStatus = pre[inv.args[1]].docStatus
           /\ ledger[inv.args[1]].owner.v = jsonString(inv.args[2])
           /\ ValidUTF8(inv.args[2]) => ledger[inv.args[1]].owner.v = inv.args[2]
           /\ OthersUnchanged(inv.args[1])

\* changeStudentDocOwner gave a record of status "a" and another owner a new
\* owner, while the seed records were stored under other keys
C3_Witness ==
    /\ RanWith("changeStudentDocOwner", 2)
    /\ inv.args[1] \in DOMAIN pre
    /\ Decodes(pre[inv.args[1]])
    /\ pre[inv.args[1]].docStatus.v = <<97>>
    /\ pre[inv.args[1]].owner # ledger[inv.args[1]].owner
    /\ ledger[inv.args[1]].docStatus.v = <<97>>
    /\ SeedKeys \subseteq DOMAIN pre

\* the array member that queryAllStudentDocs writes for the i-th seed record
SeedMember(i) ==
    [tok |-> "{}", Key |-> Prefix \o Itoa(i), Record |-> Marshal(studentDocs[i + 1])]

\* the stored keys inside the range that queryAllStudentDocs scans
StoredInRange == {k \in DOMAIN ledger : ~LexLess(k, startKey) /\ LexLess(k, endKey)}

\* C4 as stated: with initLedger the latest write, every stored value a record
\* and the host failing nothing, queryAllStudentDocs returns exactly the nine
\* seed members, keys StudentDoc0 to StudentDoc8 in ascending order.
C4_ExactlyNine ==
    (IsInvoke /\ inv.handler = "queryAllStudentDocs" /\ inv.host = NoHost
            /\ lastWrite.function = "initLedger"
            /\ \A k \in DOMAIN pre : Decodes(pre[k]))
        => /\ Succeeded
           /\ Members(inv.resp.payload) = [i \in 1..9 |-> SeedMember(i - 1)]

\* C4 amended: with initLedger the latest write, a queryAllStudentDocs whose
\* scan the host does not fail succeeds and returns one member for every key
\* stored in ["StudentDoc0", "StudentDoc999"), in ascending key order, each with
\* the bytes stored at its key; the nine seed keys are among them with their
\* hardcoded records, and there are exactly 9 members if and only if no other
\* key of that range is stored.
C4_SeedThenQueryAll ==
    (IsInvoke /\ inv.handler = "queryAllStudentDocs"
            /\ ~inv.host.scanErr /\ inv.host.failAt = 0
            /\ lastWrite.function = "initLedger")
        => LET m == Members(inv.resp.payload) IN
           /\ Succeeded
           /\ {m[i].Key : i \in 1..Len(m)} = StoredInRange
           /\ \A i \in 1..(Len(m) - 1) : LexLess(m[i].Key, m[i + 1].Key)
           /\ \A i \in 1..Len(m) : m[i].Record = ledger[m[i].Key]
           /\ \A i \in 0..8 : \E j \in 1..Len(m) : m[j] = SeedMember(i)
           /\ Len(m) = 9 <=> StoredInRange = SeedKeys

\* after createStudentDoc("StudentDoc10", ...) and then initLedger, with "doc1"
\* stored too, queryAllStudentDocs returns ten members, "StudentDoc10" the third
C4_Witness ==
    /\ IsInvoke /\ inv.handler = "queryAllStudentDocs" /\ Succeeded
    /\ lastWrite.function = "initLedger"
    /\ KeyOutside \in DOMAIN ledger
    /\ KeyInRange \in DOMAIN ledger
    /\ Decodes(ledger[KeyInRange])
    /\ Len(Members(inv.resp.payload)) = 10
    /\ Members(inv.resp.payload)[3].Key = KeyInRange
    /\ Members(inv.resp.payload)[4] = SeedMember(2)

\* C5: a getHistoryForStudentDoc whose scan and Next calls the host does not
\* fail returns one member per history item, in the iterator's order, whose
\* IsDelete is the item's flag and whose value is null exactly for a delete,
\* and the item's value as it is otherwise.
C5_HistoryMembers ==
    (IsInvoke /\ inv.handler = "getHistoryForStudentDoc" /\ Len(inv.args) >= 1
            /\ ~inv.host.scanErr /\ inv.host.failAt = 0)
        => LET m == Members(inv.resp.payload)
               h == inv.host.history
           IN /\ Succeeded
              /\ Len(m) = Len(h)
              /\ \A i \in 1..Len(h) :
                    /\ m[i].TxId = h[i].TxId
                    /\ m[i].IsDelete \in {"true", "false"}
                    /\ m[i].IsDelete = "true" <=> h[i].IsDelete
                    /\ m[i].Value = NullValue <=> h[i].IsDelete
                    /\ ~h[i].IsDelete => m[i].Value = h[i].Value

\* the history of a delete followed by a write came back as two members
C5_Witness ==
    /\ IsInvoke /\ inv.handler = "getHistoryForStudentDoc" /\ Succeeded
    /\ Len(inv.host.history) = 2
    /\ inv.host.history[1].IsDelete
    /\ ~inv.host.history[2].IsDelete
    /\ Len(Members(inv.resp.payload)) = 2
    /\ Members(inv.resp.payload)[1].Value = NullValue

\* C6: Invoke runs the handler whose name equals the function name; for any
\* other name it runs no handler, makes no call into the host, leaves the
\* state store alone and returns a failure whose message holds the name.
C6_Dispatch ==
    IsInvoke =>
        /\ inv.function \in FunctionNames => inv.handler = inv.function
        /\ inv.function \notin FunctionNames =>
              /\ inv.handler = "none"
              /\ Failed
              /\ \E i \in 1..Len(inv.resp.message) : inv.resp.message[i] = inv.function
              /\ inv.calls = <<>>
              /\ inv.opened = 0
              /\ ledger = pre

\* a name that differs from "queryStudentDoc" only by case was refused
C6_Witness ==
    /\ IsInvoke /\ inv.function = "querystudentdoc" /\ Failed
    /\ inv.handler = "none"
    /\ inv.resp.message[1] = "querystudentdoc"
    /\ DOMAIN ledger # {}

\* the key of the last invocation is absent, or holds bytes that do not decode
KeyUndecodable == inv.args[1] \notin DOMAIN pre \/ ~Decodes(pre[inv.args[1]])
\* the key of the last invocation is absent, or holds bytes that are no JSON
KeyNoJSON == inv.args[1] \notin DOMAIN pre \/ pre[inv.args[1]].kind # "object"

\* C7 as stated: on a key that is absent or holds undecodable bytes, the two
\* change handlers succeed and write the zero-value record with only the
\* caller-supplied fields overwritten; after changeStudentDocOwner on an absent
\* key the stored record has an empty status and owner newOwner.
C7_ZeroRecord ==
    /\ (RanWith("changeStudentDocOwner", 2) /\ KeyUndecodable)
        => /\ Succeeded
           /\ ledger[inv.args[1]] = Marshal([ZeroStudentDoc EXCEPT !.Owner = inv.args[2]])
    /\ (RanWith("changeStudentDocStatus", 3) /\ KeyUndecodable)
        => /\ Succeeded
           /\ ledger[inv.args[1]] = Marshal(StudentDoc(inv.args[3], inv.args[2]))
    /\ (RanWith("changeStudentDocOwner", 2) /\ inv.args[1] \notin DOMAIN pre)
        => /\ ledger[inv.args[1]].docStatus.v = <<>>
           /\ ledger[inv.args[1]].owner.v = inv.args[2]

\* C7 amended: on a key that is absent or holds undecodable bytes, the two
\* change handlers succeed and write a record made of the caller-supplied
\* fields (invalid UTF-8 bytes replaced by U+FFFD) and, for changeStudentDocOwner,
\* of the status that decoding left: empty when the key is absent or its bytes
\* are no JSON, and the stored status when the bytes are a JSON object whose
\* status is a string and whose owner is not. queryStudentDoc returns the
\* stored bytes as they are, so after changeStudentDocOwner on an absent key it
\* returns an empty status and owner newOwner with its invalid bytes replaced.
C7_DecodedSoFar ==
    /\ (RanWith("changeStudentDocOwner", 2) /\ KeyNoJSON)
        => /\ Succeeded
           /\ ledger[inv.args[1]] = ObjectBytes(JString(<<>>), JString(jsonString(inv.args[2])))
    /\ (RanWith("changeStudentDocOwner", 2) /\ ~KeyNoJSON /\ KeyUndecodable
            /\ pre[inv.args[1]].docStatus.t = "string")
        => /\ Succeeded
           /\ ledger[inv.args[1]] =
                 ObjectBytes(pre[inv.args[1]].docStatus, JString(jsonString(inv.args[2])))
    /\ (RanWith("changeStudentDocStatus", 3) /\ KeyUndecodable)
        => /\ Succeeded
           /\ ledger[inv.args[1]] =
                 ObjectBytes(JString(jsonString(inv.args[3])), JString(jsonString(inv.args[2])))
    /\ RanWith("queryStudentDoc", 1)
        => /\ Succeeded
           /\ inv.resp.payload = GetState(ledger, inv.args[1])
    /\ (RanWith("queryStudentDoc", 1) /\ lastWrite.function = "changeStudentDocOwner"
            /\ lastWrite.args[1] = inv.args[1])
        => inv.resp.payload.owner.v = jsonString(lastWrite.args[2])

\* changeStudentDocOwner on a key holding {"docStatus":"a","owner":1} kept the
\* status "a"
C7_Witness ==
    /\ RanWith("changeStudentDocOwner", 2)
    /\ inv.args[1] \in DOMAIN pre
    /\ pre[inv.args[1]] = BadOwnerBytes
    /\ Succeeded
    /\ ledger[inv.args[1]].docStatus.v = <<97>>

\* C8: a handler closes every iterator it obtained exactly once before it
\* returns, also when Next fails; when the scan itself fails it holds no
\* iterator and returns a failure carrying the scan's error.
C8_IteratorClosed ==
    IsInvoke =>
        /\ inv.closed = inv.opened
        /\ IF \/ inv.handler = "queryAllStudentDocs"
              \/ inv.handler = "getHistoryForStudentDoc" /\ Len(inv.args) >= 1
           THEN IF inv.host.scanErr
                THEN /\ inv.opened = 0
                     /\ Failed
                     /\ inv.resp.message \in {<<"range scan failed">>, <<"history scan failed">>}
                ELSE inv.opened = 1 /\ inv.closed = 1
           ELSE inv.opened = 0

\* queryAllStudentDocs returned the error of a failing Next with the iterator closed
C8_Witness ==
    /\ IsInvoke /\ inv.handler = "queryAllStudentDocs" /\ Failed
    /\ inv.resp.message = <<"next failed">>
    /\ inv.host.failAt = 1
    /\ inv.opened = 1 /\ inv.closed = 1

\* C9 as stated: every handler makes at most two calls into the host's state API.
C9_AtMostTwoCalls == IsInvoke => Len(inv.calls) <= 2

\* C9 amended: every handler but initLedger makes at most two calls into the
\* host's state API; initLedger makes nine, one put per seed record.
C9_CallsPerHandler ==
    IsInvoke =>
        IF inv.handler = "initLedger"
        THEN inv.calls = [i \in 1..9 |-> "PutState"]
        ELSE Len(inv.calls) <= 2

\* changeStudentDocStatus made its two calls on a seeded store
C9_Witness ==
    /\ RanWith("changeStudentDocStatus", 3)
    /\ inv.calls = <<"GetState", "PutState">>
    /\ lastWrite.function = "changeStudentDocStatus"
    /\ SeedKeys \subseteq DOMAIN pre

\* C10: the state store changes only during initLedger or a createStudentDoc,
\* changeStudentDocOwner or changeStudentDocStatus with its arity; Init, the
\* three queries, unknown functions and every failure leave it as it was.
C10_Frame ==
    (\/ inv.entry = "Init"
     \/ inv.handler \in {"queryStudentDoc", "queryAllStudentDocs", "getHistoryForStudentDoc", "none"}
     \/ Failed
     \/ ~(\/ inv.handler = "initLedger"
          \/ RanWith("createStudentDoc", 3)
          \/ RanWith("changeStudentDocOwner", 2)
          \/ RanWith("changeStudentDocStatus", 3)))
        => ledger = pre

\* a createStudentDoc with two arguments failed and left a seeded store as it was
C10_Witness ==
    /\ RanWith("createStudentDoc", 2) /\ Failed
    /\ inv.args[1] = KeyInRange
    /\ SeedKeys \subseteq DOMAIN ledger
    /\ ledger = pre

====
